---- MODULE Spec2Model ----
(***************************************************************************)
(* A model of EXTERES/app.py: a Flask productivity application whose       *)
(* request handlers read and write the tables tasks, focus_sessions,       *)
(* projects, events and profiles of a hosted store, and whose dashboard    *)
(* handler aggregates a user's tasks and focus sessions into statistics.   *)
(*                                                                         *)
(* Time is counted in half days since a Monday 00:00 UTC, so that a        *)
(* datetime has a weekday and a clock time (morning or afternoon).         *)
(* A timestamp string is a record [kind, t, tz]: an ISO-8601 string of     *)
(* local time t with UTC-offset suffix tz, the empty string, a string      *)
(* that is no ISO-8601 date, or null (no string at all).                   *)
(*                                                                         *)
(* Left out: the public pages and signup (they touch no table), the        *)
(* priority, task_id, project_id and bio fields that no handler reads      *)
(* back, and failures of the store itself.                                 *)
(* The statistics of a dashboard request that ends in an exception are     *)
(* not delivered; its response carries none.                               *)
(***************************************************************************)
EXTENDS Integers, Sequences, FiniteSets, TLC

VARIABLES session, token_valid, tasks, focus_sessions, projects, events, profiles, now, response

vars == <<session, token_valid, tasks, focus_sessions, projects, events, profiles, now, response>>

\* ------------------------------------------------------------ bounds
\* Rows the store holds over all tables (Spec).
MaxRows == 2
\* Half days the clock advances (Spec).
MaxTicks == 1
\* Task and focus-session rows of the store the dashboard reads (SpecDash).
MaxRecords == 3
\* Completed tasks of the store the activity feed is built from (SpecFeed).
MaxFeedTasks == 11

\* ------------------------------------------------------------ program constants
\* timedelta(days=today.weekday()): one day, in half days.
DayLen == 2
\* timedelta(days=7)
WeekDays == 7
\* recent_activities[:10]
FeedLimit == 10
\* min(total_focus_hours * 5, 100)
MaxFocusScore == 100

Users == {1, 2}

\* The instant the application starts at: a Monday afternoon, two weeks
\* after the origin of time.
FirstNow == 2 * WeekDays * DayLen + 1

\* ------------------------------------------------------------ values
\* A field of a row: a value, null, or a key the row does not have.
IntVal(n) == [kind |-> "int", v |-> n]
NullInt == [kind |-> "null", v |-> 0]
AbsentInt == [kind |-> "absent", v |-> 0]

StrVal(s) == [kind |-> "str", v |-> s]
AbsentStr == [kind |-> "absent", v |-> ""]

\* Timestamp strings.
Iso(t, tz) == [kind |-> "iso", t |-> t, tz |-> tz]
NullTs == [kind |-> "null", t |-> 0, tz |-> ""]
EmptyTs == [kind |-> "empty", t |-> 0, tz |-> ""]
GarbageTs == [kind |-> "garbage", t |-> 0, tz |-> ""]

\* The UTC offset a suffix states, in half days.
OffsetOf(tz) == IF tz = "+12:00" THEN 1 ELSE 0

\* ts_str.replace('Z', '+00:00')
replace_Z(ts_str) ==
    IF ts_str.kind = "iso" /\ ts_str.tz = "Z" THEN [ts_str EXCEPT !.tz = "+00:00"] ELSE ts_str

\* datetime.fromisoformat(s).astimezone(timezone.utc): <<instant>>, or <<>> for
\* the ValueError of a string that is no ISO-8601 date. The suffix Z itself is
\* not accepted here: parse_timestamp replaces it first.
fromisoformat_utc(s) ==
    IF s.kind = "iso" /\ s.tz \in {"+00:00", "+12:00"} THEN <<s.t - OffsetOf(s.tz)>> ELSE <<>>

\* parse_timestamp: <<>> is None.
parse_timestamp(ts_str) ==
    IF ts_str.kind \in {"null", "empty"} THEN <<>> ELSE fromisoformat_utc(replace_Z(ts_str))

\* datetime.isoformat() of an aware UTC datetime.
isoformat(t) == Iso(t, "+00:00")

\* task.get('is_complete') as a condition.
Truthy(flag) == flag = "true"

\* ------------------------------------------------------------ rounding
\* Python's round() of the float nearest num/den (den > 0): the nearest
\* integer; at a tie the float's own rounding error decides (half to even when
\* the float is exact), so both neighbours are possible outcomes.
round(num, den) ==
    LET q == num \div den
        r == num - q * den
    IN  IF 2 * r < den THEN {q} ELSE IF 2 * r > den THEN {q + 1} ELSE {q, q + 1}

Min(a, b) == IF a <= b THEN a ELSE b

\* ------------------------------------------------------------ dashboard: tasks
is_completed(task) == Truthy(task.is_complete)

\* [task for task in tasks if task.get('is_complete')]
tasks_completed(task_rows) == SelectSeq(task_rows, is_completed)

weekday(today) == (today \div DayLen) % WeekDays

\* The start of the week at midnight, the clock time of today dropped.
start_of_this_week_midnight(today) == (today \div DayLen) * DayLen - weekday(today) * DayLen

start_of_this_week(today) == today - weekday(today) * DayLen

start_of_last_week(today) == start_of_this_week(today) - WeekDays * DayLen

\* The window a timestamp string falls in: "this", "last" or "none".
week_bucket(ts_str, today) ==
    LET at == parse_timestamp(ts_str)
    IN  IF at = <<>> THEN "none"
        ELSE IF at[1] >= start_of_this_week(today) THEN "this"
        ELSE IF start_of_last_week(today) <= at[1] /\ at[1] < start_of_this_week(today)
             THEN "last"
        ELSE "none"

\* tasks_this_week_count / tasks_last_week_count
tasks_in_week(task_rows, today, bucket) ==
    LET done == tasks_completed(task_rows)
    IN  Cardinality({i \in DOMAIN done : week_bucket(done[i].completed_at, today) = bucket})

\* The change from an empty last week given the size of this week.
percentage_change_by_size(this_week, last_week) ==
    IF last_week > 0 THEN round((this_week - last_week) * 100, last_week)
    ELSE IF this_week > 0 THEN {this_week * 100}
    ELSE {0}

\* round(((this - last) / last) * 100) if last > 0, else 100 if this > 0, else 0
percentage_change(this_week, last_week) ==
    IF last_week > 0 THEN round((this_week - last_week) * 100, last_week)
    ELSE IF this_week > 0 THEN {100}
    ELSE {0}

\* ------------------------------------------------------------ dashboard: focus
\* focus_session.get('duration_minutes', 0), where it is a number
duration_of(focus_session) ==
    IF focus_session.duration_minutes.kind = "int" THEN focus_session.duration_minutes.v ELSE 0

\* total_focus_minutes += duration raises TypeError when duration is None:
\* the key is there and its value is null.
focus_raises(session_rows) ==
    \E i \in DOMAIN session_rows : session_rows[i].duration_minutes.kind = "null"

RECURSIVE focus_minutes(_, _, _)
\* The sum of the durations of the sessions in a window ("all": of all of them).
focus_minutes(session_rows, today, bucket) ==
    IF session_rows = <<>> THEN 0
    ELSE LET s == Head(session_rows)
             counted == bucket = "all" \/ week_bucket(s.created_at, today) = bucket
         IN  (IF counted THEN duration_of(s) ELSE 0) + focus_minutes(Tail(session_rows), today, bucket)

\* round(total_focus_minutes / 60, 1), in tenths of an hour
total_focus_hours(total_focus_minutes) == round(total_focus_minutes * 10, 60)

\* ------------------------------------------------------------ dashboard: score
\* (tasks_completed_count / total_tasks) * 100 if total_tasks > 0 else 0, as a fraction
task_score(completed_count, total_tasks) ==
    IF total_tasks > 0 THEN <<completed_count * 100, total_tasks>> ELSE <<0, 1>>

\* focus_score without the cap at 100.
focus_score_uncapped(hours_tenths) == <<hours_tenths * 5, 10>>

\* min(total_focus_hours * 5, 100), as a fraction
focus_score(hours_tenths) == <<Min(hours_tenths * 5, MaxFocusScore * 10), 10>>

\* round((task_score * 0.7) + (focus_score * 0.3))
productivity_score(completed_count, total_tasks, hours_tenths) ==
    LET ts == task_score(completed_count, total_tasks)
        fs == focus_score(hours_tenths)
    IN  round(7 * ts[1] * fs[2] + 3 * fs[1] * ts[2], 10 * ts[2] * fs[2])

\* ------------------------------------------------------------ dashboard: feed
\* The completed tasks whose completion timestamp parses.
has_parsed_completion(task) == is_completed(task) /\ parse_timestamp(task.completed_at) # <<>>

\* task["title"] raises KeyError for a task appended to the feed without the key.
feed_raises(task_rows) ==
    \E i \in DOMAIN task_rows :
        has_parsed_completion(task_rows[i]) /\ task_rows[i].title.kind = "absent"

activity_of(task) ==
    [description |-> <<"You completed task", task.title.v>>,
     timestamp |-> parse_timestamp(task.completed_at)[1]]

RECURSIVE activities_of(_)
\* recent_activities before the sort, in the order of the tasks
activities_of(task_rows) ==
    IF task_rows = <<>> THEN <<>>
    ELSE IF has_parsed_completion(Head(task_rows))
         THEN <<activity_of(Head(task_rows))>> \o activities_of(Tail(task_rows))
    ELSE activities_of(Tail(task_rows))

RECURSIVE insert_desc(_, _)
\* x placed behind every entry whose timestamp is at least its own.
insert_desc(x, sorted) ==
    IF sorted = <<>> THEN <<x>>
    ELSE IF Head(sorted).timestamp >= x.timestamp
         THEN <<Head(sorted)>> \o insert_desc(x, Tail(sorted))
    ELSE <<x>> \o sorted

RECURSIVE sort_desc_from(_, _)
sort_desc_from(acts, sorted) ==
    IF acts = <<>> THEN sorted ELSE sort_desc_from(Tail(acts), insert_desc(Head(acts), sorted))

\* recent_activities.sort(key=timestamp, reverse=True): stable, equal timestamps
\* keep the order of the tasks.
sort_desc(acts) == sort_desc_from(acts, <<>>)

\* The feed not cut to its first ten entries.
truncate_none(acts) == acts

\* recent_activities[:10]
truncate(acts) == SubSeq(acts, 1, Min(Len(acts), FeedLimit))

recent_activities(task_rows) == truncate(sort_desc(activities_of(task_rows)))

\* ------------------------------------------------------------ dashboard: all of it
NoStats ==
    [raised |-> FALSE, total_tasks |-> 0, tasks_completed_count |-> 0, active_tasks_count |-> 0,
     tasks_this_week_count |-> 0, tasks_last_week_count |-> 0, percentage_change |-> 0,
     total_focus_minutes |-> 0, focus_this_week_min |-> 0, focus_last_week_min |-> 0,
     total_focus_hours |-> 0, focus_percentage_change |-> 0, productivity_score |-> 0,
     recent_activities |-> <<>>, sessions_completed_count |-> 0]

\* The active tasks counted as those whose flag is false, not as the rest.
active_count_flag_false(task_rows, completed_count) ==
    Cardinality({i \in DOMAIN task_rows : task_rows[i].is_complete = "false"})

\* active_tasks_count = len(tasks) - tasks_completed_count
active_tasks_count(task_rows, completed_count) == Len(task_rows) - completed_count

\* What the statistics part of dashboard() computes from the rows it fetched:
\* the set of its possible results (more than one only at a rounding tie), the
\* handler's locals included; raised: the computation ended in an exception.
dashboard_stats(task_rows, session_rows, today) ==
    IF focus_raises(session_rows) \/ feed_raises(task_rows)
    THEN {[NoStats EXCEPT !.raised = TRUE]}
    ELSE
    LET completed_count == Len(tasks_completed(task_rows))
        total == Len(task_rows)
        t_this == tasks_in_week(task_rows, today, "this")
        t_last == tasks_in_week(task_rows, today, "last")
        minutes == focus_minutes(session_rows, today, "all")
        f_this == focus_minutes(session_rows, today, "this")
        f_last == focus_minutes(session_rows, today, "last")
        feed == recent_activities(task_rows)
        result(pc, fpc, hours, score) ==
            [raised |-> FALSE, total_tasks |-> total, tasks_completed_count |-> completed_count,
             active_tasks_count |-> active_tasks_count(task_rows, completed_count),
             tasks_this_week_count |-> t_this, tasks_last_week_count |-> t_last,
             percentage_change |-> pc,
             total_focus_minutes |-> minutes, focus_this_week_min |-> f_this,
             focus_last_week_min |-> f_last, total_focus_hours |-> hours,
             focus_percentage_change |-> fpc, productivity_score |-> score,
             recent_activities |-> feed, sessions_completed_count |-> 0]
    IN  UNION {{result(pc, fpc, hours, score) :
                    pc \in percentage_change(t_this, t_last),
                    fpc \in percentage_change(f_this, f_last),
                    score \in productivity_score(completed_count, total, hours)} :
               hours \in total_focus_hours(minutes)}

\* ------------------------------------------------------------ the store
RECURSIVE eq_user_id(_, _)
\* .eq("user_id", user_id): the rows of a table a user owns
eq_user_id(rows, user_id) ==
    IF rows = <<>> THEN <<>>
    ELSE IF Head(rows).user_id = user_id
         THEN <<Head(rows)>> \o eq_user_id(Tail(rows), user_id)
    ELSE eq_user_id(Tail(rows), user_id)

RECURSIVE reverse(_)
reverse(rows) == IF rows = <<>> THEN <<>> ELSE reverse(Tail(rows)) \o <<Head(rows)>>

\* .order("created_at", desc=True): the tables keep their rows in creation order.
order_created_desc(rows) == reverse(rows)

RECURSIVE insert_by_start(_, _)
insert_by_start(e, sorted) ==
    IF sorted = <<>> THEN <<e>>
    ELSE IF Head(sorted).start_time <= e.start_time
         THEN <<Head(sorted)>> \o insert_by_start(e, Tail(sorted))
    ELSE <<e>> \o sorted

RECURSIVE order_start_time(_)
\* .order("start_time")
order_start_time(rows) ==
    IF rows = <<>> THEN <<>>
    ELSE insert_by_start(rows[Len(rows)], order_start_time(SubSeq(rows, 1, Len(rows) - 1)))

\* The owners of rows.
owners_of(rows) == {rows[i].user_id : i \in DOMAIN rows}

total_rows == Len(tasks) + Len(focus_sessions) + Len(projects) + Len(events) + Len(profiles)

\* ------------------------------------------------------------ session, responses
EmptySession == [user |-> 0, access_token |-> 0]

\* route: the handler; status: its outcome; user: the logged-in user it ran
\* for (0: none); rows: the records in its body or handed to its template;
\* owners: the owners of every row its queries returned; stats: dashboard's.
Response(route, status, user, rows, owners, stats) ==
    [route |-> route, status |-> status, user |-> user, rows |-> rows, owners |-> owners,
     stats |-> stats]

NoResponse == Response("", "none", 0, <<>>, {}, NoStats)

store == <<tasks, focus_sessions, projects, events, profiles>>

has_session == session.user # 0 /\ session.access_token # 0

\* login_required without the set_session() check: any stored session is let in.
login_check_session_only == IF ~has_session THEN "login" ELSE "ok"

\* login_required: what it decides for a request. "login": no 'user' or no
\* 'access_token' in the session; "expired": set_session() raises for the
\* tokens; "ok": the handler runs.
login_check ==
    IF ~has_session THEN "login" ELSE IF ~token_valid THEN "expired" ELSE "ok"

\* login_required turning a request away: it is redirected to the auth page,
\* and a session whose tokens were refused is cleared.
turned_away(route) ==
    /\ session' = IF login_check = "expired" THEN EmptySession ELSE session
    /\ response' = Response(route, "redirect", 0, <<>>, {}, NoStats)
    /\ UNCHANGED <<token_valid, store, now>>

\* ------------------------------------------------------------ authentication
\* auth(), form_type == "login": sign_in_with_password() accepts the
\* credentials of user u, or raises.
login(u, accepted) ==
    /\ IF accepted
       THEN /\ session' = [user |-> u, access_token |-> u]
            /\ token_valid' = TRUE
            /\ response' = Response("auth", "redirect", 0, <<>>, {}, NoStats)
       ELSE /\ response' = Response("auth", "invalid", 0, <<>>, {}, NoStats)
            /\ UNCHANGED <<session, token_valid>>
    /\ UNCHANGED <<store, now>>

\* token_signin(): the body holds both tokens or not; set_session() accepts
\* the tokens of user u, or raises.
token_signin(u, has_tokens, accepted) ==
    /\ IF ~has_tokens
       THEN /\ response' = Response("token_signin", "bad_request", 0, <<>>, {}, NoStats)
            /\ UNCHANGED <<session, token_valid>>
       ELSE IF ~accepted
       THEN /\ response' = Response("token_signin", "error", 0, <<>>, {}, NoStats)
            /\ UNCHANGED <<session, token_valid>>
       ELSE /\ session' = [user |-> u, access_token |-> u]
            /\ token_valid' = TRUE
            /\ response' = Response("token_signin", "ok", 0, <<>>, {}, NoStats)
    /\ UNCHANGED <<store, now>>

\* logout(): session.clear()
logout ==
    /\ session' = EmptySession
    /\ token_valid' = FALSE
    /\ response' = Response("logout", "redirect", 0, <<>>, {}, NoStats)
    /\ UNCHANGED <<store, now>>

\* The backend stops accepting the session's tokens: from now on
\* supabase.auth.set_session() raises for them.
token_expires ==
    /\ has_session /\ token_valid
    /\ token_valid' = FALSE
    /\ UNCHANGED <<session, store, now, response>>

\* Half a day passes: datetime.now(timezone.utc) reads a later instant.
tick ==
    /\ now < FirstNow + MaxTicks
    /\ now' = now + 1
    /\ UNCHANGED <<session, token_valid, store, response>>

\* ------------------------------------------------------------ pages
\* dashboard(): the user's tasks and focus sessions are fetched and the
\* statistics computed from them; an exception ends the request with status
\* 500. (The profile lookup only picks the name shown.)
dashboard ==
    IF login_check # "ok" THEN turned_away("dashboard")
    ELSE /\ UNCHANGED <<session, token_valid, now>>
         /\ LET user_id == session.user
               task_rows == order_created_desc(eq_user_id(tasks, user_id))
               session_rows == eq_user_id(focus_sessions, user_id)
           IN  /\ \E stats \in dashboard_stats(task_rows, session_rows, now) :
                   response' = IF stats.raised
                               THEN Response("dashboard", "error", user_id, <<>>,
                                             owners_of(task_rows) \cup owners_of(session_rows), stats)
                               ELSE Response("dashboard", "ok", user_id, task_rows,
                                             owners_of(task_rows) \cup owners_of(session_rows), stats)
               /\ UNCHANGED store

\* focus(): the counts of the focus page; an exception in summing them is
\* caught and leaves the values computed so far.
focus ==
    IF login_check # "ok" THEN turned_away("focus")
    ELSE /\ UNCHANGED <<session, token_valid, now>>
         /\ LET user_id == session.user
               task_rows == eq_user_id(tasks, user_id)
               session_rows == eq_user_id(focus_sessions, user_id)
               stats == [NoStats EXCEPT
                           !.tasks_completed_count = Len(tasks_completed(task_rows)),
                           !.sessions_completed_count = Len(session_rows),
                           !.total_focus_minutes =
                               IF focus_raises(session_rows) THEN 0
                               ELSE focus_minutes(session_rows, now, "all")]
           IN  /\ response' = Response("focus", "ok", user_id, <<>>,
                                       owners_of(task_rows) \cup owners_of(session_rows), stats)
               /\ UNCHANGED store

\* calendar(): the user's events, by start time
calendar ==
    IF login_check # "ok" THEN turned_away("calendar")
    ELSE /\ UNCHANGED <<session, token_valid, now>>
         /\ LET rows == order_start_time(eq_user_id(events, session.user))
           IN  /\ response' = Response("calendar", "ok", session.user, rows, owners_of(rows), NoStats)
               /\ UNCHANGED store

\* ------------------------------------------------------------ tasks
\* get_tasks(): select("*").order("created_at", desc=True), with no filter
get_tasks ==
    IF login_check # "ok" THEN turned_away("get_tasks")
    ELSE /\ UNCHANGED <<session, token_valid, now>>
         /\ LET rows == order_created_desc(tasks)
           IN  /\ response' = Response("get_tasks", "ok", session.user, rows, owners_of(rows), NoStats)
               /\ UNCHANGED store

\* add_task(): a body with no title is refused; the task is inserted
\* incomplete, and the store leaves its completed_at null.
add_task(has_title) ==
    IF login_check # "ok" THEN turned_away("add_task")
    ELSE /\ UNCHANGED <<session, token_valid, now>>
         /\ IF ~has_title
           THEN /\ response' = Response("add_task", "bad_request", session.user, <<>>, {}, NoStats)
                /\ UNCHANGED store
           ELSE LET row == [id |-> Len(tasks) + 1, user_id |-> session.user, title |-> StrVal("t"),
                            is_complete |-> "false", completed_at |-> NullTs]
                IN  /\ total_rows < MaxRows
                    /\ tasks' = Append(tasks, row)
                    /\ response' = Response("add_task", "ok", session.user, <<row>>, {row.user_id}, NoStats)
                    /\ UNCHANGED <<focus_sessions, projects, events, profiles>>

\* The update of complete_task() without the completion timestamp.
completed_without_timestamp(task, today) == [task EXCEPT !.is_complete = "true"]

\* update({"is_complete": True, "completed_at": now.isoformat()})
completed(task, today) ==
    [task EXCEPT !.is_complete = "true", !.completed_at = isoformat(today)]

\* complete_task(task_id): the update reaches the rows with this id that the
\* user owns; with none the answer is 404.
complete_task(task_id) ==
    IF login_check # "ok" THEN turned_away("complete_task")
    ELSE /\ UNCHANGED <<session, token_valid, now>>
         /\ LET hit == {i \in DOMAIN tasks : tasks[i].id = task_id /\ tasks[i].user_id = session.user}
               updated == [i \in DOMAIN tasks |-> IF i \in hit THEN completed(tasks[i], now) ELSE tasks[i]]
           IN  IF hit = {}
               THEN /\ response' = Response("complete_task", "not_found", session.user, <<>>, {}, NoStats)
                    /\ UNCHANGED store
               ELSE /\ tasks' = updated
                    /\ response' = Response("complete_task", "ok", session.user,
                                            <<updated[CHOOSE i \in hit : TRUE]>>, {session.user}, NoStats)
                    /\ UNCHANGED <<focus_sessions, projects, events, profiles>>

\* ------------------------------------------------------------ events
\* get_events(): the user's events, by start time
get_events ==
    IF login_check # "ok" THEN turned_away("get_events")
    ELSE /\ UNCHANGED <<session, token_valid, now>>
         /\ LET rows == order_start_time(eq_user_id(events, session.user))
           IN  /\ response' = Response("get_events", "ok", session.user, rows, owners_of(rows), NoStats)
               /\ UNCHANGED store

\* The identifier the store gives the next event: one more than any in use.
next_event_id ==
    IF events = <<>> THEN 1
    ELSE 1 + (CHOOSE m \in {events[i].id : i \in DOMAIN events} :
                 \A i \in DOMAIN events : events[i].id <= m)

\* add_event(): title, start_time and end_time are required.
add_event(has_fields, start_time) ==
    IF login_check # "ok" THEN turned_away("add_event")
    ELSE /\ UNCHANGED <<session, token_valid, now>>
         /\ IF ~has_fields
           THEN /\ response' = Response("add_event", "bad_request", session.user, <<>>, {}, NoStats)
                /\ UNCHANGED store
           ELSE LET row == [id |-> next_event_id, user_id |-> session.user, title |-> StrVal("e"),
                            start_time |-> start_time, updated_at |-> NullTs]
                IN  /\ total_rows < MaxRows
                    /\ events' = Append(events, row)
                    /\ response' = Response("add_event", "ok", session.user, <<row>>, {row.user_id}, NoStats)
                    /\ UNCHANGED <<tasks, focus_sessions, projects, profiles>>

\* update(data): every key of the request body replaces the row's field.
updated_event(event, data, today) ==
    [event EXCEPT !.start_time = IF data.start_time.kind = "absent" THEN @ ELSE data.start_time.v,
                  !.user_id = IF data.user_id.kind = "absent" THEN @ ELSE data.user_id.v,
                  !.id = IF data.id.kind = "absent" THEN @ ELSE data.id.v,
                  !.updated_at = isoformat(today)]

\* update_event(event_id): data["updated_at"] is set and the body applied to
\* the rows with this id that the user owns; with none the answer is 404. An
\* identifier already in use is refused by the store and the answer is 500.
update_event(event_id, data) ==
    IF login_check # "ok" THEN turned_away("update_event")
    ELSE /\ UNCHANGED <<session, token_valid, now>>
         /\ LET hit == {i \in DOMAIN events : events[i].id = event_id /\ events[i].user_id = session.user}
               updated == [i \in DOMAIN events |->
                              IF i \in hit THEN updated_event(events[i], data, now) ELSE events[i]]
               clash == \E i, j \in DOMAIN events : i # j /\ updated[i].id = updated[j].id
           IN  IF hit = {}
               THEN /\ response' = Response("update_event", "not_found", session.user, <<>>, {}, NoStats)
                    /\ UNCHANGED store
               ELSE IF clash
               THEN /\ response' = Response("update_event", "error", session.user, <<>>, {}, NoStats)
                    /\ UNCHANGED store
               ELSE /\ events' = updated
                    /\ response' = Response("update_event", "ok", session.user,
                                            <<updated[CHOOSE i \in hit : TRUE]>>,
                                            {updated[CHOOSE i \in hit : TRUE].user_id}, NoStats)
                    /\ UNCHANGED <<tasks, focus_sessions, projects, profiles>>

RECURSIVE without_event(_, _, _)
\* delete().eq("id", event_id).eq("user_id", user_id)
without_event(rows, event_id, user_id) ==
    IF rows = <<>> THEN <<>>
    ELSE IF Head(rows).id = event_id /\ Head(rows).user_id = user_id
         THEN without_event(Tail(rows), event_id, user_id)
    ELSE <<Head(rows)>> \o without_event(Tail(rows), event_id, user_id)

\* delete_event(event_id): 404 when no row was deleted
delete_event(event_id) ==
    IF login_check # "ok" THEN turned_away("delete_event")
    ELSE /\ UNCHANGED <<session, token_valid, now>>
         /\ LET left == without_event(events, event_id, session.user)
           IN  IF left = events
               THEN /\ response' = Response("delete_event", "not_found", session.user, <<>>, {}, NoStats)
                    /\ UNCHANGED store
               ELSE /\ events' = left
                    /\ response' = Response("delete_event", "ok", session.user, <<>>, {}, NoStats)
                    /\ UNCHANGED <<tasks, focus_sessions, projects, profiles>>

\* ------------------------------------------------------------ profile
\* select(...).eq("id", user_id).single(): the user's profile row, if any
profile_of(user_id) == SelectSeq(profiles, LAMBDA row : row.id = user_id)

\* profile(): the page shows the stored full name, or the default name when
\* the lookup finds no row.
profile ==
    IF login_check # "ok" THEN turned_away("profile")
    ELSE /\ UNCHANGED <<session, token_valid, now>>
         /\ LET rows == profile_of(session.user)
           IN  /\ response' = Response("profile", "ok", session.user, rows,
                                       {rows[i].id : i \in DOMAIN rows}, NoStats)
               /\ UNCHANGED store

\* upsert(row): the row replaces the one with its id, or is added.
upsert(rows, row) ==
    IF \E i \in DOMAIN rows : rows[i].id = row.id
    THEN [i \in DOMAIN rows |-> IF rows[i].id = row.id THEN row ELSE rows[i]]
    ELSE Append(rows, row)

\* handle_profile(): GET answers the user's profile row or the defaults; PUT
\* refuses an empty full name and otherwise upserts the row with the user's id.
handle_profile(method, has_full_name) ==
    IF login_check # "ok" THEN turned_away("handle_profile")
    ELSE /\ UNCHANGED <<session, token_valid, now>>
         /\ IF method = "GET"
           THEN LET rows == profile_of(session.user)
                IN  /\ response' = Response("handle_profile", "ok", session.user, rows,
                                            {rows[i].id : i \in DOMAIN rows}, NoStats)
                    /\ UNCHANGED store
           ELSE IF ~has_full_name
           THEN /\ response' = Response("handle_profile", "bad_request", session.user, <<>>, {}, NoStats)
                /\ UNCHANGED store
           ELSE LET row == [id |-> session.user, full_name |-> StrVal("n"),
                            updated_at |-> isoformat(now)]
                IN  /\ profile_of(session.user) = <<>> => total_rows < MaxRows
                    /\ profiles' = upsert(profiles, row)
                    /\ response' = Response("handle_profile", "ok", session.user, <<row>>, {row.id}, NoStats)
                    /\ UNCHANGED <<tasks, focus_sessions, projects, events>>

\* ------------------------------------------------------------ projects, focus sessions
\* get_projects(): select("*").order("created_at", desc=True), with no filter
get_projects ==
    IF login_check # "ok" THEN turned_away("get_projects")
    ELSE /\ UNCHANGED <<session, token_valid, now>>
         /\ LET rows == order_created_desc(projects)
           IN  /\ response' = Response("get_projects", "ok", session.user, rows, owners_of(rows), NoStats)
               /\ UNCHANGED store

\* add_project(): a body with no name is refused.
add_project(has_name) ==
    IF login_check # "ok" THEN turned_away("add_project")
    ELSE /\ UNCHANGED <<session, token_valid, now>>
         /\ IF ~has_name
           THEN /\ response' = Response("add_project", "bad_request", session.user, <<>>, {}, NoStats)
                /\ UNCHANGED store
           ELSE LET row == [user_id |-> session.user, name |-> StrVal("p")]
                IN  /\ total_rows < MaxRows
                    /\ projects' = Append(projects, row)
                    /\ response' = Response("add_project", "ok", session.user, <<row>>, {row.user_id}, NoStats)
                    /\ UNCHANGED <<tasks, focus_sessions, events, profiles>>

\* add_focus_session(): a body with no duration_minutes key is refused; the
\* value of the key is inserted as it came. The store stamps created_at.
add_focus_session(duration_minutes) ==
    IF login_check # "ok" THEN turned_away("add_focus_session")
    ELSE /\ UNCHANGED <<session, token_valid, now>>
         /\ IF duration_minutes.kind = "absent"
           THEN /\ response' = Response("add_focus_session", "bad_request", session.user, <<>>, {}, NoStats)
                /\ UNCHANGED store
           ELSE LET row == [user_id |-> session.user, duration_minutes |-> duration_minutes,
                            created_at |-> isoformat(now)]
                IN  /\ total_rows < MaxRows
                    /\ focus_sessions' = Append(focus_sessions, row)
                    /\ response' = Response("add_focus_session", "ok", session.user, <<row>>,
                                            {row.user_id}, NoStats)
                    /\ UNCHANGED <<tasks, projects, events, profiles>>

\* get_focus_sessions(): select("*").order("created_at", desc=True), with no filter
get_focus_sessions ==
    IF login_check # "ok" THEN turned_away("get_focus_sessions")
    ELSE /\ UNCHANGED <<session, token_valid, now>>
         /\ LET rows == order_created_desc(focus_sessions)
           IN  /\ response' = Response("get_focus_sessions", "ok", session.user, rows, owners_of(rows),
                                       NoStats)
               /\ UNCHANGED store

\* ------------------------------------------------------------ the application
\* The duration_minutes of a request body: no key, null, or a number.
DurationInputs == {AbsentInt, NullInt, IntVal(-30), IntVal(30)}

\* The bodies of update_event: a new start time, a new owner, a new identifier.
UpdateInputs ==
    {[start_time |-> IntVal(2), user_id |-> AbsentInt, id |-> AbsentInt]}
    \cup {[start_time |-> AbsentInt, user_id |-> IntVal(u), id |-> AbsentInt] : u \in Users}
    \cup {[start_time |-> AbsentInt, user_id |-> AbsentInt, id |-> IntVal(n)] : n \in 1..2}

Init ==
    /\ session = EmptySession
    /\ token_valid = FALSE
    /\ tasks = <<>>
    /\ focus_sessions = <<>>
    /\ projects = <<>>
    /\ events = <<>>
    /\ profiles = <<>>
    /\ now = FirstNow
    /\ response = NoResponse

Next ==
    \/ \E u \in Users, accepted \in BOOLEAN : login(u, accepted)
    \/ \E u \in Users, has_tokens \in BOOLEAN, accepted \in BOOLEAN : token_signin(u, has_tokens, accepted)
    \/ logout
    \/ token_expires
    \/ tick
    \/ dashboard
    \/ focus
    \/ calendar
    \/ get_tasks
    \/ \E has_title \in BOOLEAN : add_task(has_title)
    \/ \E task_id \in 1..MaxRows : complete_task(task_id)
    \/ get_events
    \/ \E has_fields \in BOOLEAN, start_time \in 1..2 : add_event(has_fields, start_time)
    \/ \E event_id \in 1..MaxRows, data \in UpdateInputs : update_event(event_id, data)
    \/ \E event_id \in 1..MaxRows : delete_event(event_id)
    \/ get_projects
    \/ \E has_name \in BOOLEAN : add_project(has_name)
    \/ \E duration_minutes \in DurationInputs : add_focus_session(duration_minutes)
    \/ get_focus_sessions
    \/ profile
    \/ \E method \in {"GET", "PUT"}, has_full_name \in BOOLEAN : handle_profile(method, has_full_name)

Spec == Init /\ [][Next]_vars

\* The application serving only logins, logouts, add_task and complete_task,
\* while tokens expire and time passes.
NextTasks ==
    \/ \E u \in Users, accepted \in BOOLEAN : login(u, accepted)
    \/ logout
    \/ token_expires
    \/ tick
    \/ \E has_title \in BOOLEAN : add_task(has_title)
    \/ \E task_id \in 1..MaxRows : complete_task(task_id)

SpecTasks == Init /\ [][NextTasks]_vars

\* The request bodies sent while sessions are followed: an update that moves
\* the start time, and a focus session with a positive duration.
AuthUpdateInputs == {data \in UpdateInputs : data.user_id = AbsentInt /\ data.id = AbsentInt}

AuthDurationInputs == {d \in DurationInputs : d.kind = "int" /\ d.v > 0}

\* The application with the clock standing still: every route is served,
\* sessions begin and end and tokens expire.
NextAuth ==
    \/ \E u \in Users, accepted \in BOOLEAN : login(u, accepted)
    \/ \E u \in Users, has_tokens \in BOOLEAN, accepted \in BOOLEAN : token_signin(u, has_tokens, accepted)
    \/ logout
    \/ token_expires
    \/ dashboard
    \/ focus
    \/ calendar
    \/ get_tasks
    \/ \E has_title \in BOOLEAN : add_task(has_title)
    \/ \E task_id \in 1..MaxRows : complete_task(task_id)
    \/ get_events
    \/ \E has_fields \in BOOLEAN, start_time \in {1} : add_event(has_fields, start_time)
    \/ \E event_id \in 1..MaxRows, data \in AuthUpdateInputs : update_event(event_id, data)
    \/ \E event_id \in 1..MaxRows : delete_event(event_id)
    \/ get_projects
    \/ \E has_name \in BOOLEAN : add_project(has_name)
    \/ \E duration_minutes \in AuthDurationInputs : add_focus_session(duration_minutes)
    \/ get_focus_sessions
    \/ profile
    \/ \E method \in {"GET", "PUT"}, has_full_name \in BOOLEAN : handle_profile(method, has_full_name)

SpecAuth == Init /\ [][NextAuth]_vars

\* ------------------------------------------------------------ the dashboard over any store
\* The dashboard run once for a logged-in user over a store that holds any
\* rows for that user, well-formed or not, at any of these instants.
DashUser == CHOOSE u \in Users : \A v \in Users : u <= v

\* A Monday afternoon and the Wednesday morning after it.
DashNows == {FirstNow, FirstNow + 3}

\* Timestamp strings: null, empty, no date, and dates around the starts of
\* this week and of last week, in the three spellings of the offset.
DashTimestamps ==
    {NullTs, EmptyTs, GarbageTs}
    \cup {Iso(FirstNow - d, "Z") : d \in {0, 1, 14, 15, 16}}
    \cup {Iso(FirstNow, "+00:00"), Iso(FirstNow, "+12:00")}

Task(title, is_complete, completed_at) ==
    [id |-> 1, user_id |-> DashUser, title |-> title, is_complete |-> is_complete,
     completed_at |-> completed_at]

DashTasks ==
    {Task(StrVal("t"), "true", ts) : ts \in DashTimestamps}
    \cup {Task(AbsentStr, "true", ts) : ts \in {NullTs, Iso(FirstNow, "Z")}}
    \cup {Task(StrVal("t"), "false", ts) : ts \in {NullTs, Iso(FirstNow, "Z")}}
    \cup {Task(AbsentStr, "null", NullTs)}

FocusSession(duration_minutes, created_at) ==
    [user_id |-> DashUser, duration_minutes |-> duration_minutes, created_at |-> created_at]

DashSessions ==
    {FocusSession(IntVal(8), ts) : ts \in DashTimestamps}
    \cup {FocusSession(d, Iso(FirstNow, "Z")) :
             d \in {AbsentInt, NullInt, IntVal(-30), IntVal(3), IntVal(1500)}}

InitDash ==
    /\ session = [user |-> DashUser, access_token |-> DashUser]
    /\ token_valid = TRUE
    /\ \E n \in 0..MaxRecords : \E m \in 0..(MaxRecords - n) :
          /\ tasks \in [1..n -> DashTasks]
          /\ focus_sessions \in [1..m -> DashSessions]
    /\ projects = <<>>
    /\ events = <<>>
    /\ profiles = <<>>
    /\ now \in DashNows
    /\ response = NoResponse

NextDash == dashboard

SpecDash == InitDash /\ [][NextDash]_vars

\* The dashboard run once over a store that holds up to MaxFeedTasks tasks
\* of the user completed at one of two instants, more than the feed shows,
\* and before them possibly a task with no parseable completion time or a
\* task that is not complete.
FeedTasks ==
    {Task(StrVal("a"), "true", Iso(FirstNow, "Z")),
     Task(StrVal("b"), "true", Iso(FirstNow - 1, "+00:00"))}

FeedOddTasks ==
    {<<>>, <<Task(StrVal("c"), "true", GarbageTs)>>, <<Task(StrVal("d"), "false", Iso(FirstNow, "Z"))>>}

InitFeed ==
    /\ session = [user |-> DashUser, access_token |-> DashUser]
    /\ token_valid = TRUE
    /\ \E odd \in FeedOddTasks : \E n \in 0..MaxFeedTasks : \E done \in [1..n -> FeedTasks] :
          tasks = odd \o done
    /\ focus_sessions = <<>>
    /\ projects = <<>>
    /\ events = <<>>
    /\ profiles = <<>>
    /\ now = FirstNow
    /\ response = NoResponse

NextFeed == dashboard

SpecFeed == InitFeed /\ [][NextFeed]_vars

\* ============================================================ properties
\* The rows of the logged-in user the last dashboard request read.
UserTasks == eq_user_id(tasks, response.user)

UserSessions == eq_user_id(focus_sessions, response.user)

DashboardDone == response.route = "dashboard" /\ response.status = "ok"

\* The handlers that answer with what they read from the store.
ReadRoutes ==
    {"get_tasks", "get_projects", "get_focus_sessions", "get_events", "dashboard", "focus",
     "calendar"}

\* C1: no response of a reading handler contains a record that the logged-in
\* user does not own: the owners of the rows its queries returned are that
\* user alone.
C1_NoCrossUserRecords ==
    response.route \in ReadRoutes => response.owners \subseteq {response.user}

\* C2: in every state reached by add_task and complete_task requests, each
\* stored task has its completion timestamp set if and only if its
\* completion flag is true.
C2_TimestampIffComplete ==
    \A i \in DOMAIN tasks : (tasks[i].completed_at # NullTs) <=> (tasks[i].is_complete = "true")

\* C2 witness: complete_task has completed one task of a store that also
\* holds an incomplete one.
C2_Witness ==
    /\ response.route = "complete_task" /\ response.status = "ok"
    /\ \E i, j \in DOMAIN tasks :
          /\ tasks[i].is_complete = "true" /\ tasks[i].completed_at # NullTs
          /\ tasks[j].is_complete = "false" /\ tasks[j].completed_at = NullTs

\* C3: once a task's completion flag is true, no request changes its
\* completion flag or its completion timestamp.
C3_CompletionIsFinal ==
    [][\A i \in DOMAIN tasks :
          tasks[i].is_complete = "true" =>
              /\ i \in DOMAIN tasks'
              /\ tasks'[i].is_complete = tasks[i].is_complete
              /\ tasks'[i].completed_at = tasks[i].completed_at]_vars

\* C4: the dashboard computation never fails, whatever rows of tasks and
\* focus sessions the store holds for the user.
C4_DashboardNeverRaises == response.route = "dashboard" => ~response.stats.raised

\* C7: every stored focus session has a duration that is a non-negative
\* integer.
C7_DurationsNonNegative ==
    \A i \in DOMAIN focus_sessions :
        /\ focus_sessions[i].duration_minutes.kind = "int"
        /\ focus_sessions[i].duration_minutes.v >= 0

Abs(x) == IF x < 0 THEN -x ELSE x

\* num/den rounded to a nearest integer is r (den > 0).
IsNearest(r, num, den) == 2 * Abs(num - r * den) <= den

\* The duration a session counts with: its number, 0 when it has none.
Counted(row) == IF row.duration_minutes.kind = "int" THEN row.duration_minutes.v ELSE 0

RECURSIVE SumOver(_, _)
\* The sum of the counted durations of the rows at the indices I.
SumOver(rows, I) ==
    IF I = {} THEN 0
    ELSE LET i == CHOOSE j \in I : TRUE IN Counted(rows[i]) + SumOver(rows, I \ {i})

\* The instant a timestamp string denotes is at least lo and, with bounded, below hi.
Within(ts_str, lo, bounded, hi) ==
    /\ parse_timestamp(ts_str) # <<>>
    /\ parse_timestamp(ts_str)[1] >= lo
    /\ bounded => parse_timestamp(ts_str)[1] < hi

Feed == response.stats.recent_activities

\* The indices of the user's completed tasks whose completion timestamp parses.
FeedSources ==
    {i \in DOMAIN UserTasks :
        UserTasks[i].is_complete = "true" /\ parse_timestamp(UserTasks[i].completed_at) # <<>>}

FeedFromTasks ==
    /\ Len(Feed) <= FeedLimit
    /\ Len(Feed) = Min(Cardinality(FeedSources), FeedLimit)
    /\ \A k \in DOMAIN Feed : \E i \in FeedSources :
          /\ parse_timestamp(UserTasks[i].completed_at) = <<Feed[k].timestamp>>
          /\ Feed[k].description = <<"You completed task", UserTasks[i].title.v>>

\* C5 as amended: the feed of a dashboard that was computed has at most 10
\* entries, is descending by timestamp with equal timestamps allowed next to
\* each other, and every entry comes from a completed task whose completion
\* timestamp parses.
C5_FeedDescending ==
    DashboardDone =>
        /\ FeedFromTasks
        /\ \A k \in 1..(Len(Feed) - 1) : Feed[k].timestamp >= Feed[k + 1].timestamp

\* C5 as stated: the same with the feed strictly descending by timestamp.
C5_FeedStrictlyDescending ==
    DashboardDone =>
        /\ FeedFromTasks
        /\ \A k \in 1..(Len(Feed) - 1) : Feed[k].timestamp > Feed[k + 1].timestamp

\* C5 witness: more than 10 completed tasks with parseable timestamps and one
\* without; the feed is full, with two equal and two different neighbours.
C5_Witness ==
    /\ DashboardDone
    /\ Cardinality(FeedSources) > FeedLimit
    /\ \E i \in DOMAIN UserTasks :
          UserTasks[i].is_complete = "true" /\ parse_timestamp(UserTasks[i].completed_at) = <<>>
    /\ Len(Feed) = FeedLimit
    /\ \E k \in 1..(Len(Feed) - 1) : Feed[k].timestamp = Feed[k + 1].timestamp
    /\ \E k \in 1..(Len(Feed) - 1) : Feed[k].timestamp > Feed[k + 1].timestamp

\* C6: for focus sessions with non-negative durations the productivity score
\* is round(task_score * 0.7 + focus_score * 0.3), with task_score =
\* completed/total * 100 (0 without tasks) and focus_score =
\* min(total_focus_hours * 5, 100), and lies in 0..100.
C6_ScoreInRange ==
    (DashboardDone /\ \A i \in DOMAIN UserSessions : Counted(UserSessions[i]) >= 0) =>
        LET st == response.stats
            c == st.tasks_completed_count
            n == IF st.total_tasks > 0 THEN st.total_tasks ELSE 1
            \* twice the focus score: total_focus_hours is held in tenths
            fs2 == IF st.total_focus_hours >= 2 * MaxFocusScore THEN 2 * MaxFocusScore
                   ELSE st.total_focus_hours
        IN  /\ st.productivity_score \in 0..100
            /\ IsNearest(st.productivity_score, 1400 * c + 3 * fs2 * n, 20 * n)

\* C6 witness: every task complete and more than 20 hours of focus: the
\* score is 100.
C6_Witness ==
    /\ DashboardDone
    /\ \A i \in DOMAIN UserSessions : Counted(UserSessions[i]) >= 0
    /\ response.stats.total_tasks > 0
    /\ response.stats.tasks_completed_count = response.stats.total_tasks
    /\ response.stats.total_focus_minutes > 1200
    /\ response.stats.productivity_score = 100

\* The percentage change pc of this week over last week follows the rule.
ChangeRule(this_week, last_week, pc) ==
    /\ last_week > 0 => IsNearest(pc, (this_week - last_week) * 100, last_week)
    /\ (last_week = 0 /\ this_week > 0) => pc = 100
    /\ (last_week = 0 /\ this_week = 0) => pc = 0

\* C8: the percentage changes of the weekly completed-task counts and of the
\* weekly focus minutes are round((this - last) / last * 100) when last > 0,
\* 100 when last = 0 and this > 0, and 0 when both are 0.
C8_PercentageChange ==
    DashboardDone =>
        LET st == response.stats
        IN  /\ ChangeRule(st.tasks_this_week_count, st.tasks_last_week_count, st.percentage_change)
            /\ ChangeRule(st.focus_this_week_min, st.focus_last_week_min, st.focus_percentage_change)

\* C8 witness: one task completed last week and none this week give -100,
\* and 16 focus minutes this week after none last week give 100.
C8_Witness ==
    /\ DashboardDone
    /\ response.stats.tasks_last_week_count = 1
    /\ response.stats.tasks_this_week_count = 0
    /\ response.stats.percentage_change = -100
    /\ response.stats.focus_last_week_min = 0
    /\ response.stats.focus_this_week_min = 16
    /\ response.stats.focus_percentage_change = 100

\* The user's completed tasks.
Done == {i \in DOMAIN UserTasks : UserTasks[i].is_complete = "true"}

\* C9: with start_of_this_week = now minus weekday(now) whole days, the clock
\* time kept, and start_of_last_week 7 days before it, a completed task or a
\* focus session counts for this week iff its timestamp parses to t >=
\* start_of_this_week and for last week iff start_of_last_week <= t <
\* start_of_this_week, never for both; every completed task counts in
\* tasks_completed_count and every session in total_focus_minutes.
C9_WeekWindows ==
    DashboardDone =>
        LET st == response.stats
            this_start == now - ((now \div DayLen) % WeekDays) * DayLen
            last_start == this_start - WeekDays * DayLen
            tasks_this == {i \in Done : Within(UserTasks[i].completed_at, this_start, FALSE, 0)}
            tasks_last == {i \in Done : Within(UserTasks[i].completed_at, last_start, TRUE, this_start)}
            focus_this == {i \in DOMAIN UserSessions :
                              Within(UserSessions[i].created_at, this_start, FALSE, 0)}
            focus_last == {i \in DOMAIN UserSessions :
                              Within(UserSessions[i].created_at, last_start, TRUE, this_start)}
        IN  /\ this_start % DayLen = now % DayLen
            /\ st.tasks_this_week_count = Cardinality(tasks_this)
            /\ st.tasks_last_week_count = Cardinality(tasks_last)
            /\ tasks_this \cap tasks_last = {}
            /\ st.tasks_completed_count = Cardinality(Done)
            /\ st.focus_this_week_min = SumOver(UserSessions, focus_this)
            /\ st.focus_last_week_min = SumOver(UserSessions, focus_last)
            /\ focus_this \cap focus_last = {}
            /\ st.total_focus_minutes = SumOver(UserSessions, DOMAIN UserSessions)

\* C9 witness: on a Monday afternoon, a task completed that Monday morning
\* counts for last week, beside a completed task with no parseable timestamp
\* and a focus session from before last week, which count for neither week.
C9_Witness ==
    /\ DashboardDone
    /\ now % DayLen = 1 /\ (now \div DayLen) % WeekDays = 0
    /\ \E i \in Done : parse_timestamp(UserTasks[i].completed_at) = <<now - 1>>
    /\ \E i \in Done : parse_timestamp(UserTasks[i].completed_at) = <<>>
    /\ response.stats.tasks_last_week_count = 1
    /\ response.stats.tasks_this_week_count = 0
    /\ response.stats.tasks_completed_count = 2
    /\ \E i \in DOMAIN UserSessions :
          parse_timestamp(UserSessions[i].created_at) = <<now - WeekDays * DayLen - 1>>
    /\ response.stats.focus_last_week_min = 0
    /\ response.stats.total_focus_minutes = 8

\* C10: the dashboard's active_tasks_count and tasks_completed_count add up to
\* the number of the user's tasks, the completed ones being those whose flag
\* is true, and neither is negative.
C10_CountsAddUp ==
    DashboardDone =>
        /\ response.stats.tasks_completed_count = Cardinality(Done)
        /\ response.stats.active_tasks_count = Cardinality(DOMAIN UserTasks \ Done)
        /\ response.stats.active_tasks_count + response.stats.tasks_completed_count = Len(UserTasks)
        /\ response.stats.active_tasks_count >= 0
        /\ response.stats.tasks_completed_count >= 0

\* C10 witness: a completed task, a task whose flag is false and a task
\* with no flag: one completed, two active.
C10_Witness ==
    /\ DashboardDone
    /\ \E i \in DOMAIN UserTasks : UserTasks[i].is_complete = "false"
    /\ \E i \in DOMAIN UserTasks : UserTasks[i].is_complete = "null"
    /\ response.stats.tasks_completed_count = 1
    /\ response.stats.active_tasks_count = 2

\* The routes wrapped by login_required.
ProtectedRoutes ==
    {"dashboard", "focus", "calendar", "get_tasks", "add_task", "complete_task",
     "get_events", "add_event", "update_event", "delete_event", "get_projects",
     "add_project", "add_focus_session", "get_focus_sessions", "profile",
     "handle_profile"}

\* The session holds 'user' and 'access_token' and the backend accepts the tokens.
SignedIn == has_session /\ token_valid

\* C11: a protected handler runs its body only when the session holds both
\* keys and the backend accepts the tokens. In any other state the store is
\* left alone, a request to a protected route is answered with the redirect
\* to the auth page and leaves no session behind, and only an accepted login
\* or token-signin brings the accepted session back.
C11_LoginRequired ==
    [][/\ (/\ response'.route \in ProtectedRoutes
           /\ response'.status # "redirect"
           /\ (response' # response \/ store' # store)) => SignedIn
       /\ ~SignedIn => store' = store
       /\ (~SignedIn /\ response' # response /\ response'.route \in ProtectedRoutes)
              => response'.status = "redirect" /\ ~has_session'
       /\ (~SignedIn /\ SignedIn')
              => \/ response'.route = "auth" /\ response'.status = "redirect"
                 \/ response'.route = "token_signin" /\ response'.status = "ok"]_vars

\* A request to a protected route was redirected and the session is empty,
\* while the store holds rows written during an earlier session.
C11_Witness ==
    /\ response.route \in ProtectedRoutes
    /\ response.status = "redirect"
    /\ session = EmptySession
    /\ total_rows > 0

\* The user of the session owns no event with this id, and another user does.
not_owner_of(event_id) ==
    /\ \E i \in DOMAIN events : events[i].id = event_id /\ events[i].user_id # session.user
    /\ ~\E i \in DOMAIN events : events[i].id = event_id /\ events[i].user_id = session.user

\* The step leaves every stored event its id and its user_id.
identity_kept ==
    /\ Len(events') = Len(events)
    /\ \A i \in DOMAIN events :
          events'[i].id = events[i].id /\ events'[i].user_id = events[i].user_id

\* An update_event or delete_event request of a signed-in user who does not
\* own the targeted event is answered "Event not found" and leaves the events
\* table as it was.
non_owner_refused ==
    \A event_id \in 1..MaxRows :
        (SignedIn /\ not_owner_of(event_id)) =>
            /\ \A data \in UpdateInputs :
                  update_event(event_id, data)
                      => response'.status = "not_found" /\ events' = events
            /\ delete_event(event_id)
                  => response'.status = "not_found" /\ events' = events

\* C12: for any request body update_event leaves the id and the user_id of
\* every stored event unchanged, and update_event or delete_event issued by
\* a user who does not own the targeted event answers "Event not found" and
\* leaves the events table unchanged.
C12_EventIdentityFixed ==
    [][/\ \A event_id \in 1..MaxRows, data \in UpdateInputs :
             update_event(event_id, data) => identity_kept
       /\ non_owner_refused]_vars

====
